---- MODULE Spec2Model ----
(***************************************************************************)
(* naicreport: the state-tracking reporter (ml-cpuhog, ml-deadweight).     *)
(*                                                                         *)
(* One invocation of a report verb reads the persistent job state and the  *)
(* event logs of the window, inserts/updates the state (EnsureJob), purges *)
(* old reported rows, creates the events for the unreported rows, prints   *)
(* them (text or JSON) and writes the state back.  The model follows the   *)
(* body of MlCpuhog / MlDeadweight statement by statement; the position    *)
(* within the body is pc.                                                  *)
(***************************************************************************)
EXTENDS Integers, Sequences, FiniteSets, TLC

(***************************************************************************)
(* Time.  A time.Time is an integer number of ticks since day 0, 00:00 UTC.*)
(* The tick is finer than a second so that the sub-second part of          *)
(* time.Now() exists and the second- and minute-resolution formats drop it.*)
(***************************************************************************)
TicksPerSecond == 2

Second == TicksPerSecond
Minute == 60 * Second
Hour == 60 * Minute
Day == 24 * Hour

At(d, h, m) == d * Day + h * Hour + m * Minute

Before(a, b) == a < b
After(a, b) == a > b
AddDate(t, days) == t + days * Day
TruncateToDay(t) == t - (t % Day)

MinTime(a, b) == IF Before(a, b) THEN a ELSE b
MaxTime(a, b) == IF After(a, b) THEN a ELSE b

\* time.Time{}: the zero time, long before every time of the model.
ZeroTime == 0 - Day

(***************************************************************************)
(* Strings of the files.  A field value is a text, classified by what the  *)
(* parsers of strconv and time make of it: v is what the text denotes.     *)
(***************************************************************************)
\* A text that is neither a number, a boolean word nor a timestamp.
Text(s) == [form |-> "text", v |-> s]
\* The decimal digits of n.
Digits(n) == [form |-> "uint", v |-> n]
\* The decimal digits of n followed by a mark: "<", ">" or "!".
Marked(n, m) == [form |-> "jobmark", v |-> n, mark |-> m]
\* A decimal number with a fraction part (x is its integer part).
Decimal(x) == [form |-> "float", v |-> x]
\* One of the words of strconv.ParseBool other than "1" and "0".
BoolWord(w) == [form |-> "bool", v |-> w]
\* "2006-01-02 15:04": the minute m.
DateTimeText(m) == [form |-> "datetime", v |-> m]
\* "2006-01-02T15:04:05Z": the second sec.
RFC3339Text(sec) == [form |-> "rfc3339", v |-> sec]

EmptyString == Text("")

\* The Go string a text is: the characters of a plain text, else the text itself.
StringOf(s) == IF s.form = "text" THEN s.v ELSE s

TrueWords == {"t", "T", "TRUE", "true", "True"}
FalseWords == {"f", "F", "FALSE", "false", "False"}

\* uint32 is modelled UintBits wide, so that a digit string beyond its range
\* is a number of the model.
UintBits == 8

\* time.Format(util.DateTimeFormat): "2006-01-02 15:04", the minute of t.
FormatDateTime(t) == t \div Minute
\* time.Format(time.RFC3339): the second of t (UTC times print with "Z").
FormatRFC3339(t) == RFC3339Text(t \div Second)
\* strconv.FormatBool
FormatBool(b) == BoolWord(IF b THEN "true" ELSE "false")
\* strconv.FormatUint(n, 10)
FormatUint(n) == Digits(n)

\* strconv.ParseUint(s, 10, bitSize): a syntax error gives 0, a range error
\* the largest value of the size.
ParseUint(s, bitSize) ==
    IF s.form # "uint" THEN [value |-> 0, err |-> TRUE]
    ELSE IF s.v >= 2^bitSize THEN [value |-> 2^bitSize - 1, err |-> TRUE]
    ELSE [value |-> s.v, err |-> FALSE]

\* strconv.ParseFloat(s, 64)
ParseFloat(s) ==
    IF s.form \in {"uint", "float"} THEN [value |-> s.v, err |-> FALSE]
    ELSE [value |-> 0, err |-> TRUE]

\* strconv.ParseBool(s)
ParseBool(s) ==
    IF s.form = "bool" /\ s.v \in TrueWords THEN [value |-> TRUE, err |-> FALSE]
    ELSE IF s.form = "bool" /\ s.v \in FalseWords THEN [value |-> FALSE, err |-> FALSE]
    ELSE IF s.form = "uint" /\ s.v \in {0, 1} THEN [value |-> s.v = 1, err |-> FALSE]
    ELSE [value |-> FALSE, err |-> TRUE]

\* time.Parse(DateTimeFormat, s)
ParseDateTime(s) ==
    IF s.form = "datetime" THEN [value |-> s.v * Minute, err |-> FALSE]
    ELSE [value |-> ZeroTime, err |-> TRUE]

\* time.Parse(time.RFC3339, s)
ParseRFC3339(s) ==
    IF s.form = "rfc3339" THEN [value |-> s.v * Second, err |-> FALSE]
    ELSE [value |-> ZeroTime, err |-> TRUE]

\* strings.TrimRight(s, "<>!")
TrimMarks(s) == IF s.form = "jobmark" THEN Digits(s.v) ELSE s

(***************************************************************************)
(* storage: the typed accessors.  A record maps field names to texts; each *)
(* accessor returns its value and the new value of *success.               *)
(***************************************************************************)
\* s, found := record[tag]
Lookup(record, tag) ==
    IF tag \in DOMAIN record THEN [s |-> record[tag], found |-> TRUE]
    ELSE [s |-> EmptyString, found |-> FALSE]

GetString(record, tag, success) ==
    LET l == Lookup(record, tag)
    IN  [value |-> StringOf(l.s), success |-> success /\ l.found]

GetJobMark(record, tag, success) ==
    LET l == Lookup(record, tag)
        p == ParseUint(TrimMarks(l.s), UintBits)
    IN  [value |-> p.value, success |-> (success /\ l.found) /\ ~p.err]

GetUint32(record, tag, success) ==
    LET l == Lookup(record, tag)
        p == ParseUint(l.s, UintBits)
    IN  [value |-> p.value, success |-> (success /\ l.found) /\ ~p.err]

GetFloat64(record, tag, success) ==
    LET l == Lookup(record, tag)
        p == ParseFloat(l.s)
    IN  [value |-> p.value, success |-> (success /\ l.found) /\ ~p.err]

GetBool(record, tag, success) ==
    LET l == Lookup(record, tag)
        p == ParseBool(l.s)
    IN  [value |-> p.value, success |-> (success /\ l.found) /\ ~p.err]

GetDateTime(record, tag, success) ==
    LET l == Lookup(record, tag)
        p == ParseDateTime(l.s)
    IN  [value |-> p.value, success |-> (success /\ l.found) /\ ~p.err]

GetRFC3339(record, tag, success) ==
    LET l == Lookup(record, tag)
        p == ParseRFC3339(l.s)
    IN  [value |-> p.value, success |-> (success /\ l.found) /\ ~p.err]

(***************************************************************************)
(* storage: free CSV.  A line is the sequence of its fields; a field is    *)
(* the text before its first '=' and the text after it, or a text without  *)
(* '=', or a text that encoding/csv rejects (a bare quote).                *)
(***************************************************************************)
Pair(name, value) == << name, value >>
NoEquals(text) == << text >>
BareQuote == << >>

\* Mutant of ParseFields: a name that is already in the map keeps its value.
RECURSIVE ParseFields_FirstWins(_, _)
ParseFields_FirstWins(m, fields) ==
    IF fields = << >> THEN m
    ELSE LET f == Head(fields)
         IN  ParseFields_FirstWins(IF Len(f) = 2 THEN m @@ (f[1] :> f[2]) ELSE m, Tail(fields))

\* for _, f := range fields { ix := strings.IndexByte(f, '='); ... m[f[:ix]] = f[ix+1:] }
RECURSIVE ParseFields(_, _)
ParseFields(m, fields) ==
    IF fields = << >> THEN m
    ELSE LET f == Head(fields)
         IN  ParseFields(IF Len(f) = 2 THEN (f[1] :> f[2]) @@ m ELSE m, Tail(fields))

\* rdr.Read() fails on a line with a field it rejects.
BadLine(line) == \E i \in DOMAIN line : line[i] = BareQuote

\* The line has no field at all: encoding/csv skips empty lines.
NonEmptyLine(line) == line # << >>

\* storage.ParseFreeCSV: one mapping per line, or the reader's error.
ParseFreeCSV(input) ==
    IF \E i \in DOMAIN input : BadLine(input[i])
    THEN [rows |-> << >>, err |-> "ParseError"]
    ELSE LET lines == SelectSeq(input, NonEmptyLine)
         IN  [rows |-> [i \in DOMAIN lines |-> ParseFields(<< >>, lines[i])],
              err |-> "nil"]

\* Mutant of WriteFreeCSVRow: the fields of a row come out in the reverse of
\* the order of the field list.
RECURSIVE WriteFreeCSVRow_Reversed(_, _)
WriteFreeCSVRow_Reversed(fields, row) ==
    IF fields = << >> THEN << >>
    ELSE WriteFreeCSVRow_Reversed(Tail(fields), row)
         \o (IF Head(fields) \in DOMAIN row
             THEN << << Head(fields), row[Head(fields)] >> >> ELSE << >>)

\* storage.WriteFreeCSV, the loop over the field names for one row.
RECURSIVE WriteFreeCSVRow(_, _)
WriteFreeCSVRow(fields, row) ==
    IF fields = << >> THEN << >>
    ELSE (IF Head(fields) \in DOMAIN row
          THEN << Pair(Head(fields), row[Head(fields)]) >> ELSE << >>)
         \o WriteFreeCSVRow(Tail(fields), row)

\* storage.WriteFreeCSV, the loop over the rows: the lines written, in order.
RECURSIVE WriteFreeCSV(_, _)
WriteFreeCSV(fields, data) ==
    IF data = << >> THEN << >>
    ELSE LET r == WriteFreeCSVRow(fields, Head(data))
         IN  (IF Len(r) > 0 THEN << r >> ELSE << >>) \o WriteFreeCSV(fields, Tail(data))

\* The elements of a set in the order a `range` over a map happens to take.
RECURSIVE SeqOfSet(_)
SeqOfSet(S) ==
    IF S = {} THEN << >>
    ELSE LET x == CHOOSE y \in S : TRUE IN << x >> \o SeqOfSet(S \ {x})

Range(seq) == { seq[i] : i \in DOMAIN seq }

(***************************************************************************)
(* Host names are strings; Go compares them bytewise, so a host is the     *)
(* sequence of its bytes.                                                  *)
(***************************************************************************)
ml10 == <<109, 108, 49, 48>>
ml2 == <<109, 108, 50>>

StringLess(a, b) ==
    \E i \in 1..Len(b) :
        /\ i <= Len(a) + 1
        /\ \A j \in 1..(i - 1) : a[j] = b[j]
        /\ \/ i = Len(a) + 1
           \/ a[i] < b[i]

JobKey(id, host) == [Id |-> id, Host |-> host]

KeyLess(a, b) ==
    IF a.Host # b.Host THEN StringLess(a.Host, b.Host) ELSE a.Id < b.Id

KeyA == JobKey(2, ml2)
KeyB == JobKey(5, ml10)
KeyC == JobKey(1, ml2)
Keys == {KeyA, KeyB, KeyC}

(***************************************************************************)
(* Bounds of the model.                                                    *)
(***************************************************************************)
\* The wall clock starts at noon of day FirstDay and advances MaxTicks times.
MaxTicks == 2
\* Announcement and flip counters saturate here.
MaxCount == 2

(***************************************************************************)
(* The event-log stream: <data-root>/YYYY/MM/DD/<kind>.csv for each day,   *)
(* as the lines of the files.  The stream is fixed; all of it is older     *)
(* than the first invocation.                                              *)
(***************************************************************************)
\* The six numeric columns of a cpuhog row, given the first.
Numerics(cpuPeak) ==
    << Pair("cpu-peak", Digits(cpuPeak)), Pair("gpu-peak", Digits(0)),
       Pair("rcpu-avg", Digits(cpuPeak \div 1000)), Pair("rcpu-peak", Digits(cpuPeak \div 100)),
       Pair("rmem-avg", Digits(cpuPeak \div 500)), Pair("rmem-peak", Digits(cpuPeak \div 200)) >>

LogRow(tag, now, key, user, cmd, start, end, cpuPeak) ==
    << Pair("tag", Text(tag)), Pair("now", DateTimeText(FormatDateTime(now))),
       Pair("jobm", Digits(key.Id)), Pair("user", Text(user)),
       Pair("host", Text(key.Host)), Pair("cmd", Text(cmd)) >>
    \o Numerics(cpuPeak)
    \o << Pair("start", DateTimeText(FormatDateTime(start))),
          Pair("end", DateTimeText(FormatDateTime(end))) >>

LogDays == 0..3

LogFile(kind, day) ==
    CASE day = 0 ->
           << LogRow(kind, At(0, 12, 0), KeyA, "poyenyt", "python3.9",
                     At(0, 7, 35), At(0, 11, 55), 2615) >>
      [] day = 1 ->
           << LogRow(kind, At(1, 14, 0), KeyA, "poyenyt", "python",
                     At(0, 7, 30), At(1, 13, 55), 1410),
              LogRow("other", At(1, 14, 0), KeyC, "einarvid", "bash",
                     At(1, 1, 0), At(1, 13, 55), 1200),
              LogRow(kind, At(1, 14, 0), KeyB, "einarvid", "julia",
                     At(1, 9, 0), At(1, 13, 55), 3100) >>
      [] day = 3 ->
           << LogRow(kind, At(3, 16, 0), KeyC, "larstha", "make",
                     At(3, 15, 10), At(3, 15, 50), 1100) >>
      [] OTHER -> << >>

\* Day directories that exist under the data root.
HasLogFile(kind, day) == day \in LogDays /\ LogFile(kind, day) # << >>

\* The data root: the lines of the log file of every day that has one.
DataStore(kind) == [day \in { d \in LogDays : HasLogFile(kind, d) } |-> LogFile(kind, day)]

(***************************************************************************)
(* util.StandardOptions.Parse: --from / --to.                              *)
(***************************************************************************)
DaysAgo(n) == [t |-> "d", n |-> n]
WeeksAgo(n) == [t |-> "w", n |-> n]
OnDate(d) == [t |-> "date", n |-> d]
\* A value that matches none of the three forms.
BadOption == [t |-> "bad", n |-> 0]
\* The option is not on the command line.
NoOption == [t |-> "absent", n |-> 0]

matchWhen(s, clock) ==
    IF s.t = "date" THEN [time |-> At(s.n, 0, 0), err |-> FALSE]
    ELSE IF s.t = "d" THEN [time |-> TruncateToDay(AddDate(clock, 0 - s.n)), err |-> FALSE]
    ELSE IF s.t = "w" THEN [time |-> TruncateToDay(AddDate(clock, 0 - s.n * 7)), err |-> FALSE]
    ELSE [time |-> clock, err |-> TRUE]

\* Mutant of Parse: a --to that does not parse is taken as absent.
Parse_BadToIsToday(args, clock) ==
    LET from == matchWhen(IF args.from = NoOption THEN DaysAgo(1) ELSE args.from, clock)
        to == IF args.to = NoOption \/ matchWhen(args.to, clock).err
              THEN [time |-> clock, err |-> FALSE]
              ELSE matchWhen(args.to, clock)
    IN  IF args.dataPath = "" \/ from.err
        THEN [err |-> TRUE, From |-> 0, To |-> 0]
        ELSE [err |-> FALSE, From |-> from.time, To |-> TruncateToDay(AddDate(to.time, 1))]

\* Mutant of Parse: To is not advanced to the day after.
Parse_ToNotAdvanced(args, clock) ==
    LET from == matchWhen(IF args.from = NoOption THEN DaysAgo(1) ELSE args.from, clock)
        to == IF args.to = NoOption THEN [time |-> clock, err |-> FALSE]
              ELSE matchWhen(args.to, clock)
    IN  IF args.dataPath = "" \/ from.err \/ to.err
        THEN [err |-> TRUE, From |-> 0, To |-> 0]
        ELSE [err |-> FALSE, From |-> from.time, To |-> TruncateToDay(to.time)]

\* StandardOptions.Parse: --data-path is required (CleanPath), --from defaults
\* to "1d", an absent --to is the current day; To is the day after, truncated.
Parse(args, clock) ==
    LET from == matchWhen(IF args.from = NoOption THEN DaysAgo(1) ELSE args.from, clock)
        to == IF args.to = NoOption THEN [time |-> clock, err |-> FALSE]
              ELSE matchWhen(args.to, clock)
    IN  IF args.dataPath = "" \/ from.err \/ to.err
        THEN [err |-> TRUE, From |-> 0, To |-> 0]
        ELSE [err |-> FALSE, From |-> from.time, To |-> TruncateToDay(AddDate(to.time, 1))]

CommandLine(dataPath, fromOpt, toOpt) == [dataPath |-> dataPath, from |-> fromOpt, to |-> toOpt]

ParseFrom(fromOpt, clock) == Parse(CommandLine("data", fromOpt, NoOption), clock).From

ParseTo(toOpt, clock) == Parse(CommandLine("data", NoOption, toOpt), clock).To

FromOptions == {NoOption, DaysAgo(4), OnDate(0)}
ToOptions == {NoOption, OnDate(0), OnDate(1)}

(***************************************************************************)
(* storage.EnumerateFiles and readLogFiles / readDeadweightLogFiles: the   *)
(* aggregated job of every key seen in the window.  A store maps the days  *)
(* that have a log file to the lines of the file.                          *)
(***************************************************************************)
\* Mutant of EnumerateFiles: the day of `to` is probed too.
RECURSIVE EnumerateFiles_ToInclusive(_, _, _)
EnumerateFiles_ToInclusive(store, from, to) ==
    IF ~After(from, to)
    THEN (IF (from \div Day) \in DOMAIN store THEN << from \div Day >> ELSE << >>)
         \o EnumerateFiles_ToInclusive(store, AddDate(from, 1), to)
    ELSE << >>

RECURSIVE EnumerateFiles(_, _, _)
EnumerateFiles(store, from, to) ==
    IF Before(from, to)
    THEN (IF (from \div Day) \in DOMAIN store THEN << from \div Day >> ELSE << >>)
         \o EnumerateFiles(store, AddDate(from, 1), to)
    ELSE << >>

\* math.Max
Max(a, b) == IF a > b THEN a ELSE b

\* The getters of readLogFiles for one record, and the final value of success.
CpuhogRecord(r) ==
    LET tag == GetString(r, "tag", TRUE)
        now == GetDateTime(r, "now", tag.success /\ tag.value = "cpuhog")
        id == GetJobMark(r, "jobm", now.success)
        user == GetString(r, "user", id.success)
        host == GetString(r, "host", user.success)
        cmd == GetString(r, "cmd", host.success)
        cpuPeak == GetFloat64(r, "cpu-peak", cmd.success)
        gpuPeak == GetFloat64(r, "gpu-peak", cpuPeak.success)
        rcpuAvg == GetFloat64(r, "rcpu-avg", gpuPeak.success)
        rcpuPeak == GetFloat64(r, "rcpu-peak", rcpuAvg.success)
        rmemAvg == GetFloat64(r, "rmem-avg", rcpuPeak.success)
        rmemPeak == GetFloat64(r, "rmem-peak", rmemAvg.success)
        start == GetDateTime(r, "start", rmemPeak.success)
        end == GetDateTime(r, "end", start.success)
    IN  [success |-> end.success,
         now |-> now.value, jobm |-> id.value, user |-> user.value, host |-> host.value,
         cmd |-> cmd.value, start |-> start.value, end |-> end.value,
         cpuPeak |-> cpuPeak.value, gpuPeak |-> gpuPeak.value, rcpuAvg |-> rcpuAvg.value,
         rcpuPeak |-> rcpuPeak.value, rmemAvg |-> rmemAvg.value, rmemPeak |-> rmemPeak.value]

\* The getters of readDeadweightLogFiles for one record.
DeadweightRecord(r) ==
    LET tag == GetString(r, "tag", TRUE)
        now == GetDateTime(r, "now", tag.success /\ tag.value = "deadweight")
        id == GetJobMark(r, "jobm", now.success)
        user == GetString(r, "user", id.success)
        host == GetString(r, "host", user.success)
        cmd == GetString(r, "cmd", host.success)
        start == GetDateTime(r, "start", cmd.success)
        end == GetDateTime(r, "end", start.success)
    IN  [success |-> end.success,
         now |-> now.value, jobm |-> id.value, user |-> user.value, host |-> host.value,
         cmd |-> cmd.value, start |-> start.value, end |-> end.value]

RecordOf(kind, r) == IF kind = "cpuhog" THEN CpuhogRecord(r) ELSE DeadweightRecord(r)

\* The job a first record makes, and the update a later record makes.
NewJob(kind, r) ==
    LET common == [id |-> r.jobm, host |-> r.host, user |-> r.user, cmd |-> r.cmd,
                   firstSeen |-> r.now, lastSeen |-> r.now,
                   start |-> r.start, end |-> r.end]
    IN  IF kind = "cpuhog"
        THEN [cpuPeak |-> r.cpuPeak, gpuPeak |-> r.gpuPeak, rcpuAvg |-> r.rcpuAvg,
              rcpuPeak |-> r.rcpuPeak, rmemAvg |-> r.rmemAvg, rmemPeak |-> r.rmemPeak]
             @@ common
        ELSE common

UpdateJob_KeepsFirst(kind, job, r) == job

UpdateJob(kind, job, r) ==
    LET times == [job EXCEPT !.firstSeen = MinTime(@, r.now),
                             !.lastSeen = MaxTime(@, r.now),
                             !.start = MinTime(@, r.start),
                             !.end = MaxTime(@, r.end)]
    IN  IF kind = "cpuhog"
        THEN [times EXCEPT !.cpuPeak = Max(@, r.cpuPeak),
                           !.gpuPeak = Max(@, r.gpuPeak),
                           !.rcpuAvg = Max(@, r.rcpuAvg),
                           !.rcpuPeak = Max(@, r.rcpuPeak),
                           !.rmemAvg = Max(@, r.rmemAvg),
                           !.rmemPeak = Max(@, r.rmemPeak)]
        ELSE times

\* One surviving row folded into the map of aggregated jobs.
FoldRow(kind, jobs, r) ==
    LET key == JobKey(r.jobm, r.host) IN
    IF key \in DOMAIN jobs
    THEN [jobs EXCEPT ![key] = UpdateJob(kind, @, r)]
    ELSE (key :> NewJob(kind, r)) @@ jobs

\* for _, r := range records { ...; if !success { continue }; ... }
RECURSIVE FoldRows(_, _, _)
FoldRows(jobs, kind, rows) ==
    IF rows = << >> THEN jobs
    ELSE LET r == RecordOf(kind, Head(rows))
         IN  FoldRows(IF r.success THEN FoldRow(kind, jobs, r) ELSE jobs, kind, Tail(rows))

\* for _, filePath := range files { records, err := ReadFreeCSV(...); if err != nil { continue } ... }
RECURSIVE FoldFiles(_, _, _, _)
FoldFiles(jobs, kind, store, files) ==
    IF files = << >> THEN jobs
    ELSE LET csv == ParseFreeCSV(store[Head(files)])
         IN  FoldFiles(IF csv.err # "nil" THEN jobs ELSE FoldRows(jobs, kind, csv.rows),
                       kind, store, Tail(files))

readLogFiles(store, kind, from, to) ==
    FoldFiles(<< >>, kind, store, EnumerateFiles(store, from, to))

\* mlcpuhog/log.go, the reader of the earlier revision of the verb: success is
\* computed for every record and never tested, the record is folded anyway.
RECURSIVE FoldRowsLogGo(_, _)
FoldRowsLogGo(jobs, rows) ==
    IF rows = << >> THEN jobs
    ELSE FoldRowsLogGo(FoldRow("cpuhog", jobs, CpuhogRecord(Head(rows))), Tail(rows))

RECURSIVE FoldFilesLogGo(_, _, _)
FoldFilesLogGo(jobs, store, files) ==
    IF files = << >> THEN jobs
    ELSE LET csv == ParseFreeCSV(store[Head(files)])
         IN  FoldFilesLogGo(IF csv.err # "nil" THEN jobs ELSE FoldRowsLogGo(jobs, csv.rows),
                            store, Tail(files))

readLogFilesLogGo(store, from, to) ==
    FoldFilesLogGo(<< >>, store, EnumerateFiles(store, from, to))

(***************************************************************************)
(* mlwebload: parseOutput buckets the rows of sonalyze's output by host,   *)
(* writePlots makes one JSON file per bucket.  A gpus value is "unknown",  *)
(* "none" or a text with commas; ItemList is such a text, the sequence of  *)
(* the texts between its commas.                                           *)
(***************************************************************************)
ItemList(items) == [form |-> "list", v |-> items]

\* strings.Split(gpuRepr, ",")
Split(s) == IF s.form = "list" THEN s.v ELSE << s >>

\* for _, t := range strings.Split(gpuRepr, ",") { n, err := strconv.ParseUint(t, 10, 32);
\*     if err == nil { gpuData = append(gpuData, uint32(n)) } }
RECURSIVE GpuData(_)
GpuData(items) ==
    IF items = << >> THEN << >>
    ELSE LET p == ParseUint(Head(items), UintBits)
         IN  (IF p.err THEN << >> ELSE << p.value >>) \o GpuData(Tail(items))

\* var gpuData []uint32: nil is the unknown set.
UnknownGpus == [known |-> FALSE, devices |-> << >>]
KnownGpus(devices) == [known |-> TRUE, devices |-> devices]

\* The datum of a row and the value of success after its getters.
Datum(row, newHost) ==
    LET datetime == GetDateTime(row, "datetime", TRUE)
        cpu == GetFloat64(row, "cpu", datetime.success)
        mem == GetFloat64(row, "mem", cpu.success)
        gpu == GetFloat64(row, "gpu", mem.success)
        gpumem == GetFloat64(row, "gpumem", gpu.success)
        rcpu == GetFloat64(row, "rcpu", gpumem.success)
        rmem == GetFloat64(row, "rmem", rcpu.success)
        rgpu == GetFloat64(row, "rgpu", rmem.success)
        rgpumem == GetFloat64(row, "rgpumem", rgpu.success)
        gpuRepr == Lookup(row, "gpus")
        literal == IF gpuRepr.s.form = "text" THEN gpuRepr.s.v ELSE ""
        gpus == IF literal = "unknown" THEN UnknownGpus
                ELSE IF literal = "none" THEN KnownGpus(<< >>)
                ELSE KnownGpus(GpuData(Split(gpuRepr.s)))
    IN  [success |-> rgpumem.success /\ gpuRepr.found,
         datum |-> [datetime |-> datetime.value, cpu |-> cpu.value, mem |-> mem.value,
                    gpu |-> gpu.value, gpumem |-> gpumem.value, gpus |-> gpus,
                    rcpu |-> rcpu.value, rmem |-> rmem.value, rgpu |-> rgpu.value,
                    rgpumem |-> rgpumem.value, hostname |-> newHost]]

\* var curData []*datum is nil until the first change of host.
NilData == [isNil |-> TRUE, data |-> << >>]
DataOf(data) == [isNil |-> FALSE, data |-> data]

HostData(hostname, data) == [hostname |-> hostname, data |-> data]

\* if curData != nil { allData = append(allData, &hostData{curHost, curData}) }
Flush(allData, curData, curHost) ==
    IF curData.isNil THEN allData ELSE Append(allData, HostData(curHost, curData.data))

\* Mutant of ParseRows: a new bucket is opened for every row.
\* for _, row := range rows { ... }; if curData != nil { allData = append(...) }
RECURSIVE ParseRows(_, _, _, _)
ParseRows(rows, allData, curData, curHost) ==
    IF rows = << >> THEN Flush(allData, curData, curHost)
    ELSE LET row == Head(rows)
             host == GetString(row, "host", TRUE)
         IN  IF ~host.success THEN ParseRows(Tail(rows), allData, curData, curHost)
             ELSE LET changed == host.value # curHost
                      all == IF changed THEN Flush(allData, curData, curHost) ELSE allData
                      cur == IF changed THEN DataOf(<< >>) ELSE curData
                      d == Datum(row, host.value)
                  IN  ParseRows(Tail(rows), all,
                                IF d.success THEN DataOf(Append(cur.data, d.datum)) ELSE cur,
                                host.value)

parseOutput(text) ==
    LET csv == ParseFreeCSV(text)
    IN  IF csv.err # "nil" THEN [data |-> << >>, err |-> csv.err]
        ELSE [data |-> ParseRows(csv.rows, << >>, NilData, ""), err |-> "nil"]

\* The JSON object writePlots makes for a bucket: x counts the data from 0.
PerHost(hd) ==
    [hostname |-> hd.hostname,
     start |-> FormatDateTime(hd.data[1].datetime),
     end |-> FormatDateTime(hd.data[1].datetime + Hour),
     rcpu |-> [i \in DOMAIN hd.data |-> [x |-> i - 1, y |-> hd.data[i].rcpu]],
     rgpu |-> [i \in DOMAIN hd.data |-> [x |-> i - 1, y |-> hd.data[i].rgpu]],
     rmem |-> [i \in DOMAIN hd.data |-> [x |-> i - 1, y |-> hd.data[i].rmem]],
     rgpumem |-> [i \in DOMAIN hd.data |-> [x |-> i - 1, y |-> hd.data[i].rgpumem]]]

\* writePlots: the files written, one after the other; t := hd.data[0].datetime
\* panics (index out of range) on a bucket without data, and the files of the
\* buckets before it are written by then.
RECURSIVE writePlots(_)
writePlots(buckets) ==
    IF buckets = << >> THEN [files |-> << >>, panic |-> FALSE]
    ELSE IF Head(buckets).data = << >> THEN [files |-> << >>, panic |-> TRUE]
    ELSE LET rest == writePlots(Tail(buckets))
         IN  [files |-> << PerHost(Head(buckets)) >> \o rest.files, panic |-> rest.panic]

(***************************************************************************)
(* jobstate: the persistent state and its file.  The content of the file   *)
(* is the set of its lines (WriteJobState walks a map, readers build a     *)
(* map).  NoFile is the absent file; Unreadable is a path that opens but   *)
(* whose read fails (an I/O error, a directory).                           *)
(***************************************************************************)
NoFile == [present |-> FALSE, readable |-> FALSE, rows |-> {}]
FileOf(rows) == [present |-> TRUE, readable |-> TRUE, rows |-> rows]
Unreadable == [present |-> TRUE, readable |-> FALSE, rows |-> {}]

\* storage.ReadFreeCSV: os.Open fails with *os.PathError; a failing read of
\* an os.File is a *os.PathError too; else the result of ParseFreeCSV.
ReadFreeCSV(file) ==
    IF ~file.present THEN [rows |-> << >>, err |-> "PathError"]
    ELSE IF ~file.readable THEN [rows |-> << >>, err |-> "PathError"]
    ELSE ParseFreeCSV(SeqOfSet(file.rows))

StateFields ==
    << "id", "host", "startedOnOrBefore", "firstViolation", "lastSeen", "isReported" >>

\* The map m that WriteJobState builds for one row.
StateRecord(r) ==
    [id |-> FormatUint(r.Id),
     host |-> Text(r.Host),
     startedOnOrBefore |-> FormatRFC3339(r.StartedOnOrBefore),
     firstViolation |-> FormatRFC3339(r.FirstViolation),
     lastSeen |-> FormatRFC3339(r.LastSeen),
     isReported |-> FormatBool(r.IsReported)]

\* jobstate.WriteJobState: the content of the file after a successful write.
WriteJobState(data) ==
    LET output_records == SeqOfSet({ StateRecord(data[k]) : k \in DOMAIN data })
    IN  FileOf(Range(WriteFreeCSV(StateFields, output_records)))

\* The getters of ReadJobState for one record.
StateRowOf(repr) ==
    LET id == GetUint32(repr, "id", TRUE)
        host == GetString(repr, "host", id.success)
        startedOnOrBefore == GetRFC3339(repr, "startedOnOrBefore", host.success)
        firstViolation == GetRFC3339(repr, "firstViolation", startedOnOrBefore.success)
        lastSeen == GetRFC3339(repr, "lastSeen", firstViolation.success)
        isReported == GetBool(repr, "isReported", lastSeen.success)
    IN  [success |-> isReported.success,
         row |-> [Id |-> id.value,
                  Host |-> host.value,
                  StartedOnOrBefore |-> startedOnOrBefore.value,
                  FirstViolation |-> firstViolation.value,
                  LastSeen |-> lastSeen.value,
                  IsReported |-> isReported.value]]

\* jobstate.ReadJobState: bogus records are dropped, a later record of a key
\* replaces an earlier one.
ReadJobState(file) ==
    LET stateCsv == ReadFreeCSV(file)
        good == { i \in DOMAIN stateCsv.rows : StateRowOf(stateCsv.rows[i]).success }
        rowAt(i) == StateRowOf(stateCsv.rows[i]).row
        keyAt(i) == JobKey(rowAt(i).Id, rowAt(i).Host)
        last(k) == CHOOSE i \in good :
                      keyAt(i) = k /\ \A j \in good : keyAt(j) = k => j <= i
    IN  [state |-> [k \in { keyAt(i) : i \in good } |-> rowAt(last(k))],
         err |-> stateCsv.err]

ReadJobStateOrEmpty(file) ==
    LET r == ReadJobState(file)
    IN  IF r.err = "nil" THEN r
        ELSE IF r.err = "PathError" THEN [state |-> << >>, err |-> "nil"]
        ELSE [state |-> << >>, err |-> r.err]

\* jobstate.EnsureJob(state, id, host, start, now, lastSeen): insert or update.
EnsureJob(state, id, host, start, now, lastSeen) ==
    LET k == JobKey(id, host) IN
    IF k \in DOMAIN state
    THEN [state |-> [state EXCEPT ![k] =
                        [@ EXCEPT !.StartedOnOrBefore = MinTime(@, start),
                                  !.LastSeen = lastSeen]],
          inserted |-> FALSE]
    ELSE [state |-> (k :> [Id |-> id, Host |-> host,
                           StartedOnOrBefore |-> start,
                           FirstViolation |-> now,
                           LastSeen |-> lastSeen,
                           IsReported |-> FALSE]) @@ state,
          inserted |-> TRUE]

\* Mutants of the call: the record's time instead of now; end instead of start;
\* the job's firstSeen instead of its lastSeen.
EnsureCall_FirstSeenAsNow(state, job, now) ==
    EnsureJob(state, job.id, job.host, job.start, job.firstSeen, job.lastSeen)
EnsureCall_EndAsStart(state, job, now) ==
    EnsureJob(state, job.id, job.host, job.end, now, job.lastSeen)

EnsureCall_FirstSeenAsLastSeen(state, job, now) ==
    EnsureJob(state, job.id, job.host, job.start, now, job.firstSeen)

\* The call in the loop over the aggregated jobs in MlCpuhog / MlDeadweight.
EnsureCall(state, job, now) ==
    EnsureJob(state, job.id, job.host, job.start, now, job.lastSeen)

RECURSIVE EnsureLoop(_, _, _, _, _)
EnsureLoop(state, candidates, logs, todo, now) ==
    IF todo = {} THEN [state |-> state, candidates |-> candidates]
    ELSE LET k == CHOOSE x \in todo : TRUE
             r == EnsureCall(state, logs[k], now)
         IN  EnsureLoop(r.state,
                        IF r.inserted THEN candidates + 1 ELSE candidates,
                        logs, todo \ {k}, now)

\* Mutant of Purge: the IsReported test is missing.
Purge_IgnoresIsReported(state, endDate) ==
    LET twoDaysBeforeEnd == AddDate(endDate, 0 - 2)
        dead == { k \in DOMAIN state : Before(state[k].LastSeen, twoDaysBeforeEnd) }
    IN  [state |-> [k \in DOMAIN state \ dead |-> state[k]],
         deleted |-> Cardinality(dead)]

\* jobstate.Purge(state, endDate), called as PurgeDeadJobs by MlCpuhog.
Purge(state, endDate) ==
    LET twoDaysBeforeEnd == AddDate(endDate, 0 - 2)
        dead == { k \in DOMAIN state :
                    Before(state[k].LastSeen, twoDaysBeforeEnd) /\ state[k].IsReported }
    IN  [state |-> [k \in DOMAIN state \ dead |-> state[k]],
         deleted |-> Cardinality(dead)]

\* jobstate.PurgeJobsBefore(state, purgeDate), called by MlDeadweight.
PurgeJobsBefore(state, purgeDate) ==
    LET dead == { k \in DOMAIN state :
                    Before(state[k].LastSeen, purgeDate) /\ state[k].IsReported }
    IN  [state |-> [k \in DOMAIN state \ dead |-> state[k]],
         deleted |-> Cardinality(dead)]

\* The purge statement of each verb.
CpuhogPurge(state, from, to) == Purge(state, to)
DeadweightPurge(state, from, to) ==
    PurgeJobsBefore(state, MinTime(from, AddDate(to, 0 - 2)))

PurgeOf(kind, state, from, to) ==
    IF kind = "cpuhog" THEN CpuhogPurge(state, from, to)
    ELSE DeadweightPurge(state, from, to)

(***************************************************************************)
(* createCpuhogReport / createDeadweightReport and the two output forms.   *)
(***************************************************************************)
CpuhogEvent(jobState, job) ==
    [Host |-> jobState.Host,
     Id |-> jobState.Id,
     User |-> job.user,
     Cmd |-> job.cmd,
     StartedOnOrBefore |-> FormatDateTime(jobState.StartedOnOrBefore),
     FirstViolation |-> FormatDateTime(jobState.FirstViolation),
     CpuPeak |-> job.cpuPeak \div 100]

DeadweightEvent(j, loggedJob) ==
    [Host |-> j.Host,
     Id |-> j.Id,
     User |-> loggedJob.user,
     Cmd |-> loggedJob.cmd,
     StartedOnOrBefore |-> FormatDateTime(j.StartedOnOrBefore),
     FirstViolation |-> FormatDateTime(j.FirstViolation),
     LastSeen |-> FormatDateTime(j.LastSeen)]

EventOf(kind, jobState, job) ==
    IF kind = "cpuhog" THEN CpuhogEvent(jobState, job) ELSE DeadweightEvent(jobState, job)

Unreported(state) == { k \in DOMAIN state : ~state[k].IsReported }

\* The orders in which `range` may visit the keys in S.
Orderings(S) ==
    { o \in [1..Cardinality(S) -> S] : \A i, j \in DOMAIN o : i # j => o[i] # o[j] }

\* Mutant of createReport: IsReported is not set.
createReport_NoMark(kind, state, logs, order) ==
    [state |-> state,
     events |-> [i \in DOMAIN order |-> EventOf(kind, state[order[i]], logs[order[i]])],
     panic |-> FALSE]

\* Mutant of createReport: no event for the first unreported row visited.
createReport_DropsFirst(kind, state, logs, order) ==
    [state |-> [k \in DOMAIN state |-> [state[k] EXCEPT !.IsReported = TRUE]],
     events |-> [i \in 1..(Len(order) - 1) |->
                   EventOf(kind, state[order[i + 1]], logs[order[i + 1]])],
     panic |-> FALSE]

\* The loop over the state in the order `order` visits its unreported rows.
\* `job, _ := logs[k]` gives a nil pointer for a key that is not in logs, and
\* the read of job.user for the event is a nil dereference: the row has been
\* marked, no event is made for it, and the program panics.
createReport(kind, state, logs, order) ==
    LET missing == { i \in DOMAIN order : order[i] \notin DOMAIN logs }
        stop == IF missing = {} THEN Len(order) + 1
                ELSE CHOOSE i \in missing : \A j \in missing : i <= j
        marked == { order[i] : i \in { j \in DOMAIN order : j <= stop } }
    IN  [state |-> [k \in DOMAIN state |->
                      IF k \in marked THEN [state[k] EXCEPT !.IsReported = TRUE]
                      ELSE state[k]],
         events |-> [i \in 1..(stop - 1) |-> EventOf(kind, state[order[i]], logs[order[i]])],
         panic |-> missing # {}]

JobReport(kind, e) ==
    [Id |-> e.Id, Host |-> e.Host,
     Report |-> [headline |-> IF kind = "cpuhog"
                              THEN "New CPU hog detected (uses a lot of CPU and no GPU) on host"
                              ELSE "New pointless job detected (zombie, defunct, or hung) on host",
                 fields |-> e]]

\* byJobKey.Less
ReportLess(a, b) ==
    IF a.Host # b.Host THEN StringLess(a.Host, b.Host) ELSE a.Id < b.Id

RECURSIVE InsertReport(_, _)
InsertReport(r, sorted) ==
    IF sorted = << >> THEN << r >>
    ELSE IF ReportLess(r, Head(sorted)) THEN << r >> \o sorted
    ELSE << Head(sorted) >> \o InsertReport(r, Tail(sorted))

\* util.SortReports: sort.Sort by byJobKey (no two reports of a run share a key).
RECURSIVE SortReports(_)
SortReports(reports) ==
    IF reports = << >> THEN << >>
    ELSE InsertReport(Head(reports), SortReports(Tail(reports)))

\* writeCpuhogReport / writeDeadweightReport: the paragraphs printed, in order.
writeReport(kind, events) ==
    LET reports == [i \in DOMAIN events |-> JobReport(kind, events[i])]
        sorted == SortReports(reports)
    IN  [i \in DOMAIN sorted |-> sorted[i].Report]

\* json.Marshal(events): the array of objects printed, in order.
JsonObject(kind, e) ==
    ("hostname" :> e.Host) @@ ("id" :> e.Id) @@ ("user" :> e.User) @@ ("cmd" :> e.Cmd)
    @@ ("started-on-or-before" :> e.StartedOnOrBefore)
    @@ ("first-violation" :> e.FirstViolation)
    @@ (IF kind = "cpuhog" THEN "cpu-peak" :> e.CpuPeak ELSE "last-seen" :> e.LastSeen)

jsonMarshal(kind, events) == [i \in DOMAIN events |-> JsonObject(kind, events[i])]

(***************************************************************************)
(* State.                                                                  *)
(***************************************************************************)
VARIABLES
    kind,        \* the report verb of this data root: "cpuhog" or "deadweight"
    clock,       \* the wall clock
    stateFile,   \* <data-root>/<kind>-state.csv
    pc,          \* position within the verb's body
    opts,        \* progOpts: From, To, json
    now,         \* now := time.Now().UTC()
    logs,        \* the aggregated jobs of the window
    hogState,    \* the job state in memory
    candidates,  \* number of rows inserted
    purged,      \* number of rows purged
    events,      \* the events of createReport
    output,      \* what was printed on stdout
    prePurge,    \* history: the state in memory before the purge statement
    announced,   \* history: per key, how many times it was printed
    flips,       \* history: per key, how many times IsReported went false -> true
    earliest,    \* history: per key, the earliest start ever seen (-1: none)
    since,       \* history: per key, the earliest start seen since its row was
                 \* inserted (-1: no row)
    lastWindow,  \* history: the window of the previous invocation (SpecForward)
    call,        \* SpecLib: the library function applied and its arguments
    ret,         \* SpecLib: what the function returned
    args,        \* SpecIO: the command line of the invocation
    tmpFile,     \* SpecIO: the temp file of os.CreateTemp in the data root
    pending,     \* SpecIO: the lines WriteFreeCSV has still to write
    exit,        \* SpecIO: how the last invocation ended
    failed,      \* SpecIO history: the step of the last invocation that failed
    prevFile     \* SpecIO history: the state file when the invocation started

vars == << kind, clock, stateFile, pc, opts, now, logs, hogState, candidates, purged,
           events, output, prePurge, announced, flips, earliest, since, lastWindow,
           call, ret, args, tmpFile, pending, exit, failed, prevFile >>

lib == << call, ret >>

iovars == << args, tmpFile, pending, exit, failed, prevFile >>

locals == << opts, now, logs, hogState, candidates, purged, events, output, prePurge >>

Kinds == {"cpuhog", "deadweight"}
ClockStart == At(4, 12, 0)
TickLength == 12 * Hour
NoOpts == [From |-> 0, To |-> 0, json |-> FALSE]
NoOutput == [format |-> "none", items |-> << >>]

Bump(n) == IF n < MaxCount THEN n + 1 ELSE n

NoCall == [fn |-> "none"]
NoRet == [done |-> FALSE]

NoArgs == CommandLine("", NoOption, NoOption)

\* Nothing has run yet, no invocation is under way.
Fresh ==
    /\ clock = ClockStart
    /\ args = NoArgs
    /\ tmpFile = NoFile
    /\ pending = {}
    /\ exit = "none"
    /\ failed = "none"
    /\ prevFile = NoFile
    /\ pc = "idle"
    /\ opts = NoOpts
    /\ now = 0
    /\ logs = << >>
    /\ hogState = << >>
    /\ candidates = 0
    /\ purged = 0
    /\ events = << >>
    /\ output = NoOutput
    /\ prePurge = << >>
    /\ announced = [k \in Keys |-> 0]
    /\ flips = [k \in Keys |-> 0]
    /\ earliest = [k \in Keys |-> 0 - 1]
    /\ since = [k \in Keys |-> 0 - 1]
    /\ lastWindow = [From |-> 0, To |-> 0]

Init ==
    /\ kind \in Kinds
    /\ stateFile = NoFile
    /\ Fresh
    /\ call = NoCall
    /\ ret = NoRet

\* The scheduler's period passes between two invocations.
Tick ==
    /\ pc = "idle"
    /\ UNCHANGED << lib, iovars >>
    /\ clock < ClockStart + MaxTicks * TickLength
    /\ clock' = clock + TickLength
    /\ UNCHANGED << kind, stateFile, pc, locals, announced, flips, earliest, since,
                    lastWindow >>

\* Options parsed, state file and log files read, now taken.
Start(from, to, json, frac) ==
    /\ pc = "idle"
    /\ UNCHANGED << lib, iovars >>
    /\ opts' = [From |-> from, To |-> to, json |-> json]
    /\ ReadJobStateOrEmpty(stateFile).err = "nil"
    /\ hogState' = ReadJobStateOrEmpty(stateFile).state
    /\ logs' = readLogFiles(DataStore(kind), kind, from, to)
    /\ now' = clock + frac
    /\ pc' = "read"
    /\ UNCHANGED << kind, clock, stateFile, candidates, purged, events, output,
                    prePurge, announced, flips, earliest, since >>

\* An invocation with any of the options.
Invoke ==
    \E fromOpt \in FromOptions, toOpt \in ToOptions, json \in BOOLEAN,
       frac \in {0, TicksPerSecond - 1} :
        /\ Start(ParseFrom(fromOpt, clock), ParseTo(toOpt, clock), json, frac)
        /\ UNCHANGED lastWindow

\* An invocation whose window does not reach back before the previous one's:
\* neither bound is earlier than the previous invocation's.
InvokeForward ==
    \E fromOpt \in FromOptions, toOpt \in ToOptions, json \in BOOLEAN,
       frac \in {0, TicksPerSecond - 1} :
        LET from == ParseFrom(fromOpt, clock)
            to == ParseTo(toOpt, clock)
        IN  /\ ~Before(from, lastWindow.From)
            /\ ~Before(to, lastWindow.To)
            /\ Start(from, to, json, frac)
            /\ lastWindow' = [From |-> from, To |-> to]

\* for _, job := range logs { if jobstate.EnsureJob(...) { candidates++ } }
EnsurePass ==
    /\ pc = "read"
    /\ UNCHANGED << lib, iovars >>
    /\ LET r == EnsureLoop(hogState, 0, logs, DOMAIN logs, now)
       IN  /\ hogState' = r.state
           /\ candidates' = r.candidates
    /\ earliest' = [k \in Keys |->
                      IF k \notin DOMAIN logs THEN earliest[k]
                      ELSE IF earliest[k] < 0 THEN logs[k].start
                      ELSE MinTime(earliest[k], logs[k].start)]
    /\ since' = [k \in Keys |->
                   IF k \notin DOMAIN logs THEN since[k]
                   ELSE IF since[k] < 0 THEN logs[k].start
                   ELSE MinTime(since[k], logs[k].start)]
    /\ pc' = "ensured"
    /\ UNCHANGED << kind, clock, stateFile, opts, now, logs, purged, events, output,
                    prePurge, announced, flips, lastWindow >>

\* purged := jobstate.PurgeDeadJobs(...) / jobstate.PurgeJobsBefore(...)
PurgePass ==
    /\ pc = "ensured"
    /\ UNCHANGED << lib, iovars >>
    /\ prePurge' = hogState
    /\ LET r == PurgeOf(kind, hogState, opts.From, opts.To)
       IN  /\ hogState' = r.state
           /\ purged' = r.deleted
           /\ since' = [k \in Keys |->
                          IF k \in DOMAIN hogState \ DOMAIN r.state THEN 0 - 1
                          ELSE since[k]]
    /\ pc' = "purged"
    /\ UNCHANGED << kind, clock, stateFile, opts, now, logs, candidates, events, output,
                    announced, flips, earliest, lastWindow >>

\* events := createCpuhogReport(hogState, logs).  Every unreported row has its
\* key in logs here (a row is written only after it was reported).
CreateReport ==
    /\ pc = "purged"
    /\ UNCHANGED << lib, iovars >>
    /\ Unreported(hogState) \subseteq DOMAIN logs
    /\ \E order \in Orderings(Unreported(hogState)) :
          LET r == createReport(kind, hogState, logs, order)
          IN  /\ hogState' = r.state
              /\ events' = r.events
    /\ flips' = [k \in Keys |->
                    IF k \in Unreported(hogState) THEN Bump(flips[k]) ELSE flips[k]]
    /\ pc' = "created"
    /\ UNCHANGED << kind, clock, stateFile, opts, now, logs, candidates, purged, output,
                    prePurge, announced, earliest, since, lastWindow >>

\* if *jsonOutput { fmt.Print(json.Marshal(events)) } else { writeCpuhogReport(events) }
WriteReport ==
    /\ pc = "created"
    /\ UNCHANGED << lib, iovars >>
    /\ output' = IF opts.json
                 THEN [format |-> "json", items |-> jsonMarshal(kind, events)]
                 ELSE [format |-> "text", items |-> writeReport(kind, events)]
    /\ announced' = [k \in Keys |->
                        IF \E i \in DOMAIN events : JobKey(events[i].Id, events[i].Host) = k
                        THEN Bump(announced[k]) ELSE announced[k]]
    /\ pc' = "printed"
    /\ UNCHANGED << kind, clock, stateFile, opts, now, logs, hogState, candidates, purged,
                    events, prePurge, flips, earliest, since, lastWindow >>

\* return jobstate.WriteJobState(progOpts.DataPath, cpuhogFilename, hogState)
WriteState ==
    /\ pc = "printed"
    /\ UNCHANGED << lib, iovars >>
    /\ stateFile' = WriteJobState(hogState)
    /\ pc' = "idle"
    /\ opts' = NoOpts
    /\ now' = 0
    /\ logs' = << >>
    /\ hogState' = << >>
    /\ candidates' = 0
    /\ purged' = 0
    /\ events' = << >>
    /\ output' = NoOutput
    /\ prePurge' = << >>
    /\ UNCHANGED << kind, clock, announced, flips, earliest, since, lastWindow >>

Next ==
    \/ Tick
    \/ Invoke
    \/ EnsurePass
    \/ PurgePass
    \/ CreateReport
    \/ WriteReport
    \/ WriteState

Spec == Init /\ [][Next]_vars

\* The scheduled use: the windows of successive invocations only move forward.
NextForward ==
    \/ Tick
    \/ InvokeForward
    \/ EnsurePass
    \/ PurgePass
    \/ CreateReport
    \/ WriteReport
    \/ WriteState

SpecForward == Init /\ [][NextForward]_vars

(***************************************************************************)
(* The library functions, applied to arguments drawn from bounded sets:    *)
(* call holds the function and its arguments, ret what it returned.        *)
(***************************************************************************)
machine == << kind, clock, stateFile, pc, locals, announced, flips, earliest, since,
              lastWindow >>

\* Job-state rows of a key as the reporter makes them: firstViolation is a
\* time.Now() and may carry a fraction of a second.
StateRowsOf(k) ==
    [Id : {k.Id}, Host : {k.Host},
     StartedOnOrBefore : {At(0, 7, 30)},
     FirstViolation : {ClockStart, ClockStart + (TicksPerSecond - 1)},
     LastSeen : {At(1, 14, 0), ClockStart},
     IsReported : BOOLEAN]

StateMaps ==
    UNION { { m \in [ks -> UNION { StateRowsOf(k) : k \in ks }] :
                \A k \in ks : m[k] \in StateRowsOf(k) } : ks \in SUBSET {KeyA, KeyB} }

WriteJobStateCalls == { [fn |-> "WriteJobState", data |-> m] : m \in StateMaps }

\* WriteJobState(dataPath, filename, data), then ReadJobState(dataPath, filename).
WriteThenRead ==
    /\ call.fn = "WriteJobState"
    /\ ~ret.done
    /\ ret' = [done |-> TRUE,
               file |-> WriteJobState(call.data),
               read |-> ReadJobState(WriteJobState(call.data))]
    /\ UNCHANGED << machine, iovars, call >>

(***************************************************************************)
(* Event logs for the readers: what a line was made from, and its shape.   *)
(* A line is well formed ("good"), has the tag of another report ("tag"),  *)
(* lacks its end field ("missing"), has a start that is no time            *)
(* ("unparsable"), or has a field that encoding/csv rejects ("quote").     *)
(***************************************************************************)
MaxRows == 2

Entry(shape, seen, key, user, cmd, start, end, cpuPeak) ==
    [shape |-> shape, now |-> seen, key |-> key, user |-> user, cmd |-> cmd,
     start |-> start, end |-> end, cpuPeak |-> cpuPeak]

GoodEntries ==
    { Entry("good", At(0, 12, 0), KeyA, "poyenyt", "python3.9", At(0, 7, 35), At(0, 11, 55), 2615),
      Entry("good", At(1, 14, 0), KeyA, "hermanno", "kited", At(0, 7, 30), At(1, 13, 55), 1410),
      Entry("good", At(1, 14, 0), KeyB, "einarvid", "julia", At(1, 9, 0), At(1, 13, 55), 3100) }

BadShapes == {"tag", "missing", "unparsable", "quote"}

BadEntries ==
    { Entry(shape, At(0, 1, 0), KeyA, "larstha", "make", At(0, 0, 30), At(1, 23, 0), 9000) :
        shape \in BadShapes }

Entries == GoodEntries \cup BadEntries

\* The line of the log file for an entry.
LineOf(verb, e) ==
    LET base == LogRow(IF e.shape = "tag" THEN "other" ELSE verb,
                       e.now, e.key, e.user, e.cmd, e.start, e.end, e.cpuPeak)
    IN  CASE e.shape = "missing" ->
               SelectSeq(base, LAMBDA f : f[1] # "end")
          [] e.shape = "unparsable" ->
               [i \in DOMAIN base |->
                   IF base[i][1] = "start" THEN Pair("start", Text("yesterday")) ELSE base[i]]
          [] e.shape = "quote" -> base \o << BareQuote >>
          [] OTHER -> base

LinesOf(verb, es) == [i \in DOMAIN es |-> LineOf(verb, es[i])]

\* The data root made from the entries of day 0 and of day 1.
StoreOf(verb, files) == [day \in DOMAIN files |-> LinesOf(verb, files[day])]

SeqsUpTo(S, n) == UNION { [1..m -> S] : m \in 0..n }

ReadLogFilesCalls ==
    { [fn |-> "readLogFiles", kind |-> k, files |-> (0 :> f0) @@ (1 :> f1),
       from |-> At(0, 0, 0), to |-> to] :
        k \in Kinds, f0 \in SeqsUpTo(Entries, MaxRows), f1 \in SeqsUpTo(Entries, 1),
        to \in {At(1, 0, 0), At(2, 0, 0)} }

\* readLogFiles(dataPath, from, to) of the verb, and for cpuhog the reader of
\* mlcpuhog/log.go on the same files.
ReadLogs ==
    /\ call.fn = "readLogFiles"
    /\ ~ret.done
    /\ LET store == StoreOf(call.kind, call.files)
       IN  ret' = [done |-> TRUE,
                   jobs |-> readLogFiles(store, call.kind, call.from, call.to),
                   jobsLogGo |-> IF call.kind = "cpuhog"
                                 THEN readLogFilesLogGo(store, call.from, call.to)
                                 ELSE readLogFiles(store, call.kind, call.from, call.to)]
    /\ UNCHANGED << machine, iovars, call >>

(***************************************************************************)
(* Free-CSV input for ParseFreeCSV: two lines, the first of up to          *)
(* MaxFields fields.                                                       *)
(***************************************************************************)
MaxFields == 3

FieldPool ==
    { Pair("a", Digits(1)), Pair("a", Digits(2)), Pair("b", Digits(1)), NoEquals("x"), BareQuote }

ParseFreeCSVCalls ==
    { [fn |-> "ParseFreeCSV", input |-> << l1, l2 >>] :
        l1 \in SeqsUpTo(FieldPool, MaxFields), l2 \in SeqsUpTo(FieldPool, 1) }

\* storage.ParseFreeCSV(input)
ParseCSV ==
    /\ call.fn = "ParseFreeCSV"
    /\ ~ret.done
    /\ ret' = [done |-> TRUE, csv |-> ParseFreeCSV(call.input)]
    /\ UNCHANGED << machine, iovars, call >>

(***************************************************************************)
(* The typed accessors: two of them in a row on one record, as the readers *)
(* chain them, starting from either value of the flag.                     *)
(***************************************************************************)
Getters ==
    {"GetString", "GetJobMark", "GetUint32", "GetFloat64", "GetBool", "GetDateTime", "GetRFC3339"}

\* A record with a text of every form; "big" is beyond the range of uint32.
SampleRecord ==
    [s |-> Text("python"), n |-> Digits(1), big |-> Digits(2^UintBits),
     m |-> Marked(5, ">"), f |-> Decimal(3), b |-> BoolWord("true"),
     d |-> DateTimeText(FormatDateTime(At(1, 14, 0))),
     r |-> FormatRFC3339(At(1, 14, 0))]

Tags == DOMAIN SampleRecord \cup {"absent"}

GetterCalls ==
    { [fn |-> "getters", record |-> SampleRecord, success |-> ok,
       chain |-> << [get |-> g1, tag |-> t1], [get |-> g2, tag |-> t2] >>] :
        ok \in BOOLEAN, g1 \in Getters, t1 \in Tags, g2 \in Getters, t2 \in Tags }

\* One accessor call.
Get(step, record, success) ==
    CASE step.get = "GetString" -> GetString(record, step.tag, success)
      [] step.get = "GetJobMark" -> GetJobMark(record, step.tag, success)
      [] step.get = "GetUint32" -> GetUint32(record, step.tag, success)
      [] step.get = "GetFloat64" -> GetFloat64(record, step.tag, success)
      [] step.get = "GetBool" -> GetBool(record, step.tag, success)
      [] step.get = "GetDateTime" -> GetDateTime(record, step.tag, success)
      [] step.get = "GetRFC3339" -> GetRFC3339(record, step.tag, success)

\* x := storage.GetA(r, t1, &success); y := storage.GetB(r, t2, &success)
GetChain ==
    /\ call.fn = "getters"
    /\ ~ret.done
    /\ LET first == Get(call.chain[1], call.record, call.success)
           second == Get(call.chain[2], call.record, first.success)
       IN  ret' = [done |-> TRUE, results |-> << first, second >>]
    /\ UNCHANGED << machine, iovars, call >>

(***************************************************************************)
(* Command lines for StandardOptions.Parse, at three times of one day.     *)
(***************************************************************************)
Today == 20

ParseClocks == { At(Today, 0, 0), At(Today, 12, 0), At(Today, 23, 59) + TicksPerSecond }

ParseCalls ==
    { [fn |-> "Parse", args |-> CommandLine(d, f, t), clock |-> c] :
        d \in {"", "data"},
        f \in {NoOption, DaysAgo(0), DaysAgo(3), WeeksAgo(2), OnDate(Today - 2), BadOption},
        t \in {NoOption, DaysAgo(0), DaysAgo(2), WeeksAgo(1), OnDate(Today - 1), BadOption},
        c \in ParseClocks }

\* err := opts.Parse(args)
ParseOptions ==
    /\ call.fn = "Parse"
    /\ ~ret.done
    /\ ret' = [done |-> TRUE, opts |-> Parse(call.args, call.clock)]
    /\ UNCHANGED << machine, iovars, call >>

(***************************************************************************)
(* Inputs of createCpuhogReport / createDeadweightReport: a state of up to *)
(* two rows, reported or not, and the aggregated jobs of a window of the   *)
(* data root that holds one or both of their keys.                         *)
(***************************************************************************)
CreateReportCalls ==
    { [fn |-> "createReport", verb |-> k, state |-> m,
       jobs |-> readLogFiles(DataStore(k), k, At(0, 0, 0), to)] :
        k \in Kinds, m \in StateMaps, to \in {At(1, 0, 0), At(2, 0, 0)} }

\* events := createCpuhogReport(hogState, logs), in any order of the range.
Announce ==
    /\ call.fn = "createReport"
    /\ ~ret.done
    /\ \E order \in Orderings(Unreported(call.state)) :
          LET r == createReport(call.verb, call.state, call.jobs, order)
          IN  ret' = [done |-> TRUE, state |-> r.state, events |-> r.events,
                      panic |-> r.panic]
    /\ UNCHANGED << machine, iovars, call >>

(***************************************************************************)
(* Inputs of WriteFreeCSV: a list of distinct column names out of          *)
(* ColumnNames and up to MaxRows rows, each a mapping of some of the names *)
(* to values (the value of a field tells the name it belongs to).          *)
(***************************************************************************)
ColumnNames == {"a", "b", "c"}

ColumnLists ==
    { f \in SeqsUpTo(ColumnNames, Cardinality(ColumnNames)) :
        \A i, j \in DOMAIN f : i # j => f[i] # f[j] }

RowMappings == { [n \in names |-> Text(n)] : names \in SUBSET ColumnNames }

WriteFreeCSVCalls ==
    { [fn |-> "WriteFreeCSV", fields |-> f, data |-> d] :
        f \in ColumnLists, d \in SeqsUpTo(RowMappings, MaxRows) }

\* storage.WriteFreeCSV(filename, fields, data): the rows handed to the writer.
WriteCSV ==
    /\ call.fn = "WriteFreeCSV"
    /\ ~ret.done
    /\ ret' = [done |-> TRUE, lines |-> WriteFreeCSV(call.fields, call.data)]
    /\ UNCHANGED << machine, iovars, call >>

(***************************************************************************)
(* Output of sonalyze for parseOutput: up to MaxPoints rows, the row at    *)
(* position i has the time i hours into day 0.  A row is well formed       *)
(* ("good"), has a cpu that is no number ("badcpu") or has no host field   *)
(* ("nohost"); its gpus field is one of GpusForms or is missing.           *)
(***************************************************************************)
MaxPoints == 3

GpusForms == {"unknown", "none", "list", "abc", "mixed", "missing"}

GpusText(form) ==
    CASE form = "unknown" -> Text("unknown")
      [] form = "none" -> Text("none")
      [] form = "list" -> ItemList(<< Digits(0), Digits(1) >>)
      [] form = "abc" -> Text("abc")
      [] form = "mixed" -> ItemList(<< Digits(0), Text("x") >>)

LoadRow(host, shape, gpus) == [host |-> host, shape |-> shape, gpus |-> gpus]

LoadRows ==
    { LoadRow("ml1", "good", g) : g \in GpusForms }
        \cup { LoadRow(h, "good", "none") : h \in {"", "ml2"} }
        \cup { LoadRow(h, "badcpu", "none") : h \in {"", "ml1", "ml2"} }
        \cup { LoadRow("ml1", "nohost", "none") }

\* The line of sonalyze's output for the row at position i.
LoadLine(e, i) ==
    << Pair("datetime", DateTimeText(FormatDateTime(At(0, i, 0)))),
       Pair("cpu", IF e.shape = "badcpu" THEN Text("x") ELSE Digits(100 * i)),
       Pair("mem", Digits(10)), Pair("gpu", Digits(0)), Pair("gpumem", Digits(0)),
       Pair("rcpu", Digits(i)), Pair("rmem", Digits(1)), Pair("rgpu", Digits(0)),
       Pair("rgpumem", Digits(0)) >>
    \o (IF e.gpus = "missing" THEN << >> ELSE << Pair("gpus", GpusText(e.gpus)) >>)
    \o (IF e.shape = "nohost" THEN << >> ELSE << Pair("host", Text(e.host)) >>)

LoadOutput(rows) == [i \in DOMAIN rows |-> LoadLine(rows[i], i)]

ParseOutputCalls ==
    { [fn |-> "parseOutput", rows |-> rows] : rows \in SeqsUpTo(LoadRows, MaxPoints) }

\* output, err := parseOutput(stdout.String()); return writePlots(outputPath, tag, output)
WebLoad ==
    /\ call.fn = "parseOutput"
    /\ ~ret.done
    /\ LET parsed == parseOutput(LoadOutput(call.rows))
       IN  ret' = [done |-> TRUE, output |-> parsed.data, err |-> parsed.err,
                   plots |-> writePlots(parsed.data)]
    /\ UNCHANGED << machine, iovars, call >>

(***************************************************************************)
(* Data roots for EnumerateFiles: any set of the days has a directory with *)
(* a file that matches the pattern; from and to are midnights, as Parse    *)
(* makes them.                                                             *)
(***************************************************************************)
Midnights == { At(d, 0, 0) : d \in LogDays \cup {Cardinality(LogDays)} }

EnumerateFilesCalls ==
    { [fn |-> "EnumerateFiles", store |-> [d \in days |-> << >>], from |-> f, to |-> t] :
        days \in SUBSET LogDays, f \in Midnights, t \in Midnights }

\* files, err := storage.EnumerateFiles(dataPath, from, to, pattern)
Enumerate ==
    /\ call.fn = "EnumerateFiles"
    /\ ~ret.done
    /\ ret' = [done |-> TRUE, files |-> EnumerateFiles(call.store, call.from, call.to)]
    /\ UNCHANGED << machine, iovars, call >>

LibCalls ==
    WriteJobStateCalls \cup ReadLogFilesCalls \cup ParseFreeCSVCalls \cup GetterCalls
        \cup ParseCalls \cup EnumerateFilesCalls \cup ParseOutputCalls
        \cup WriteFreeCSVCalls \cup CreateReportCalls

InitLib ==
    /\ kind = "cpuhog"
    /\ stateFile = NoFile
    /\ Fresh
    /\ call \in LibCalls
    /\ ret = NoRet

NextLib ==
    \/ WriteThenRead
    \/ ReadLogs
    \/ ParseCSV
    \/ GetChain
    \/ ParseOptions
    \/ Enumerate
    \/ WebLoad
    \/ WriteCSV
    \/ Announce

SpecLib == InitLib /\ [][NextLib]_vars

(***************************************************************************)
(* One invocation with the file system's failures: the command line may be *)
(* unacceptable, the state file may be unreadable or no CSV, and the steps *)
(* of storage.WriteFreeCSV (CreateTemp, Write, Flush, Close, Rename) are   *)
(* taken one by one, each of them able to fail; the process may die at any *)
(* step.                                                                   *)
(***************************************************************************)
ArgsIO ==
    { CommandLine("data", NoOption, NoOption),
      CommandLine("data", DaysAgo(4), NoOption),
      CommandLine("", DaysAgo(4), NoOption),
      CommandLine("data", BadOption, NoOption),
      CommandLine("data", DaysAgo(4), BadOption) }

\* A state file that is no CSV: a line with a bare quote in it.
CorruptFile == FileOf({ << Pair("id", Digits(2)), BareQuote >> })

\* The body returns: main prints the error, if any, and exits.  A temp file
\* left behind has a name of its own and is never looked at again.
Return(code) ==
    /\ exit' = code
    /\ tmpFile' = NoFile
    /\ prevFile' = NoFile
    /\ pc' = "idle"
    /\ opts' = NoOpts
    /\ now' = 0
    /\ logs' = << >>
    /\ hogState' = << >>
    /\ candidates' = 0
    /\ purged' = 0
    /\ events' = << >>
    /\ output' = NoOutput
    /\ prePurge' = << >>

\* progOpts.Parse(args), ReadJobStateOrEmpty, readLogFiles, time.Now(): each
\* `if err != nil { return err }` ends the invocation.
StartIO ==
    /\ pc = "idle"
    /\ \E a \in ArgsIO :
          LET o == Parse(a, clock)
              st == ReadJobStateOrEmpty(stateFile)
          IN  /\ args' = a
              /\ IF o.err \/ st.err # "nil"
                 THEN /\ exit' = "error"
                      /\ failed' = IF o.err THEN "config" ELSE "readState"
                      /\ UNCHANGED << pc, locals, prevFile >>
                 ELSE /\ exit' = "none"
                      /\ failed' = "none"
                      /\ prevFile' = stateFile
                      /\ opts' = [From |-> o.From, To |-> o.To, json |-> FALSE]
                      /\ hogState' = st.state
                      /\ logs' = readLogFiles(DataStore(kind), kind, o.From, o.To)
                      /\ now' = clock
                      /\ pc' = "read"
                      /\ UNCHANGED << candidates, purged, events, output, prePurge >>
    /\ UNCHANGED << kind, clock, stateFile, announced, flips, earliest, since, lastWindow,
                    lib, tmpFile, pending >>

\* The passes over the state and the printing of the report, as one step.
Passes ==
    /\ pc = "read"
    /\ LET e == EnsureLoop(hogState, 0, logs, DOMAIN logs, now)
           p == PurgeOf(kind, e.state, opts.From, opts.To)
       IN  /\ Unreported(p.state) \subseteq DOMAIN logs
           /\ \E order \in Orderings(Unreported(p.state)) :
                 LET c == createReport(kind, p.state, logs, order)
                 IN  /\ hogState' = c.state
                     /\ events' = c.events
                     /\ output' = [format |-> "text", items |-> writeReport(kind, c.events)]
           /\ candidates' = e.candidates
           /\ purged' = p.deleted
           /\ prePurge' = e.state
    /\ pc' = "printed"
    /\ UNCHANGED << kind, clock, stateFile, opts, now, logs, announced, flips, earliest,
                    since, lastWindow, lib, iovars >>

\* output_file, err := os.CreateTemp(path.Dir(filename), "naicreport-csvdata")
CreateTemp ==
    /\ pc = "printed"
    /\ tmpFile' = FileOf({})
    /\ pending' = WriteJobState(hogState).rows
    /\ pc' = "writing"
    /\ UNCHANGED << kind, clock, stateFile, locals, announced, flips, earliest, since,
                    lastWindow, lib, args, exit, failed, prevFile >>

\* ... if err != nil { return err }
CreateTempFails ==
    /\ pc = "printed"
    /\ failed' = "createTemp"
    /\ Return("error")
    /\ UNCHANGED << kind, clock, stateFile, announced, flips, earliest, since, lastWindow,
                    lib, args, pending >>

\* wr.Write(r): the line reaches the temp file.
WriteRow ==
    /\ pc = "writing"
    /\ \E line \in pending :
          /\ tmpFile' = FileOf(tmpFile.rows \cup {line})
          /\ pending' = pending \ {line}
    /\ UNCHANGED << kind, clock, stateFile, pc, locals, announced, flips, earliest, since,
                    lastWindow, lib, args, exit, failed, prevFile >>

\* A write to the temp file fails (the disk is full): csv.Writer keeps the
\* error, writes nothing more, and its result is not looked at.
WriteFails ==
    /\ pc = "writing"
    /\ pending # {}
    /\ pending' = {}
    /\ failed' = "write"
    /\ UNCHANGED << kind, clock, stateFile, pc, locals, announced, flips, earliest, since,
                    lastWindow, lib, args, tmpFile, exit, prevFile >>

\* wr.Flush(); output_file.Close(); os.Rename(oldname, filename); return nil
Rename ==
    /\ pc = "writing"
    /\ pending = {}
    /\ stateFile' = tmpFile
    /\ Return("ok")
    /\ UNCHANGED << kind, clock, announced, flips, earliest, since, lastWindow,
                    lib, args, pending, failed >>

\* os.Rename fails; its result is not looked at.
RenameFails ==
    /\ pc = "writing"
    /\ pending = {}
    /\ failed' = IF failed = "none" THEN "rename" ELSE failed
    /\ Return("ok")
    /\ UNCHANGED << kind, clock, stateFile, announced, flips, earliest, since, lastWindow,
                    lib, args, pending >>

\* The process dies (killed, power lost) at any point of the body.
Crash ==
    /\ pc # "idle"
    /\ pending' = {}
    /\ Return("crash")
    /\ UNCHANGED << kind, clock, stateFile, announced, flips, earliest, since, lastWindow,
                    lib, args, failed >>

InitIO ==
    /\ kind \in Kinds
    /\ stateFile \in {NoFile, Unreadable, CorruptFile}
    /\ Fresh
    /\ call = NoCall
    /\ ret = NoRet

NextIO ==
    \/ StartIO
    \/ Passes
    \/ CreateTemp
    \/ CreateTempFails
    \/ WriteRow
    \/ WriteFails
    \/ Rename
    \/ RenameFails
    \/ Crash

SpecIO == InitIO /\ [][NextIO]_vars

(***************************************************************************)
(* Properties.                                                             *)
(***************************************************************************)
\* The rows of a state file as a reader gets them.
FileKeys(file) == DOMAIN ReadJobState(file).state
FileRow(file, k) == ReadJobState(file).state[k]

\* C1: over any sequence of invocations each job key is announced exactly once
\* across the invocations in which it is seen: never twice, and once an
\* invocation that saw it has printed its report, not zero times.
C1_AnnouncedExactlyOnce ==
    /\ \A k \in Keys : announced[k] <= 1
    /\ pc = "printed" => \A k \in DOMAIN logs : announced[k] = 1

\* The state file a second run writes when it starts from the state this run is
\* about to write, sees the same aggregated jobs in the same window, at now2.
SecondRunState(now2) ==
    LET s0 == ReadJobStateOrEmpty(WriteJobState(hogState)).state
        s1 == EnsureLoop(s0, 0, logs, DOMAIN logs, now2).state
    IN  PurgeOf(kind, s1, opts.From, opts.To).state

EqualButLastSeen(file1, file2) ==
    /\ FileKeys(file1) = FileKeys(file2)
    /\ \A k \in FileKeys(file1) :
          [FileRow(file1, k) EXCEPT !.LastSeen = 0] = [FileRow(file2, k) EXCEPT !.LastSeen = 0]

\* C2: a second run on the same aggregated jobs, its now later by at most two
\* days, announces nothing, leaves every row reported and writes the state of
\* the first run except for lastSeen.
C2_SecondRunIdempotent ==
    pc = "printed" =>
        \A later \in 0..2 :
            LET s2 == SecondRunState(AddDate(now, later))
                order == CHOOSE o \in Orderings(Unreported(s2)) : TRUE
                s3 == createReport(kind, s2, logs, order).state
            IN  /\ Unreported(s2) = {}
                /\ \A k \in DOMAIN s3 : s3[k].IsReported
                /\ EqualButLastSeen(WriteJobState(s3), WriteJobState(hogState))

\* The cutoff the purge statement of the verb compares LastSeen with.
CutoffUsed ==
    IF kind = "cpuhog" THEN AddDate(opts.To, 0 - 2)
    ELSE MinTime(opts.From, AddDate(opts.To, 0 - 2))

\* C3: after the purge pass with cutoff C no remaining row is reported with
\* lastSeen < C, and every row unreported before the pass is still there.
C3_PurgeCorrect ==
    pc = "purged" =>
        /\ \A k \in DOMAIN hogState :
              ~(hogState[k].IsReported /\ Before(hogState[k].LastSeen, CutoffUsed))
        /\ \A k \in DOMAIN prePurge :
              ~prePurge[k].IsReported => k \in DOMAIN hogState /\ hogState[k] = prePurge[k]

C3_Witness ==
    /\ pc = "purged"
    /\ DOMAIN prePurge \ DOMAIN hogState # {}
    /\ \E k \in DOMAIN hogState :
          ~hogState[k].IsReported /\ Before(hogState[k].LastSeen, CutoffUsed)

\* C4: the purge pass of every report kind deletes exactly the rows that are
\* reported with lastSeen < min(from, to - 2 days) and leaves the others as
\* they were.
C4_PurgeCutoffIsMinFromTo ==
    pc = "purged" =>
        LET cutoff == MinTime(opts.From, AddDate(opts.To, 0 - 2)) IN
        /\ DOMAIN hogState =
              { k \in DOMAIN prePurge :
                  ~(prePurge[k].IsReported /\ Before(prePurge[k].LastSeen, cutoff)) }
        /\ \A k \in DOMAIN hogState : hogState[k] = prePurge[k]

\* C5: for every job key isReported flips from false to true at most once over
\* all invocations, and never goes from true to false.
C5_ReportedFlipsOnce ==
    [][\A k \in Keys :
          /\ flips'[k] <= 1
          /\ (k \in DOMAIN hogState /\ k \in DOMAIN hogState' /\ hogState[k].IsReported)
                => hogState'[k].IsReported]_vars

\* C6: every row of the persistent job state has
\* startedOnOrBefore <= firstViolation and firstViolation <= lastSeen.
C6_RowTimesOrdered ==
    \A k \in FileKeys(stateFile) :
        /\ FileRow(stateFile, k).StartedOnOrBefore <= FileRow(stateFile, k).FirstViolation
        /\ FileRow(stateFile, k).FirstViolation <= FileRow(stateFile, k).LastSeen

\* The keys the insert pass of this invocation found absent from the state read.
Inserted == DOMAIN logs \ DOMAIN ReadJobStateOrEmpty(stateFile).state

EventKeys(evs) == { JobKey(evs[i].Id, evs[i].Host) : i \in DOMAIN evs }

\* C9: the announce pass sets isReported on every remaining unreported row and
\* emits exactly one event for each of them and none for any other row, so the
\* state written at the end of the invocation has no unreported row.
C9_AnnounceAllUnreported ==
    [][/\ (pc = "purged" /\ pc' = "created") =>
            /\ DOMAIN hogState' = DOMAIN hogState
            /\ \A k \in DOMAIN hogState :
                  hogState'[k] = [hogState[k] EXCEPT !.IsReported = TRUE]
            /\ EventKeys(events') = Unreported(hogState)
            /\ Len(events') = Cardinality(Unreported(hogState))
       /\ (pc = "printed" /\ pc' = "idle") =>
            LET new == ReadJobState(stateFile').state
            IN  /\ stateFile'.present
                /\ \A k \in DOMAIN new : new[k].IsReported
                /\ Cardinality(stateFile'.rows) = Cardinality(DOMAIN new)]_vars

C9_Witness ==
    /\ pc = "created"
    /\ Len(events) >= 2
    /\ DOMAIN hogState \ EventKeys(events) # {}

\* The keys of the paragraphs and of the JSON objects, in output order.
TextKeys(items) == [i \in DOMAIN items |-> JobKey(items[i].fields.Id, items[i].fields.Host)]
JsonKeys(items) == [i \in DOMAIN items |-> JobKey(items[i]["id"], items[i]["hostname"])]
SortedKeys(ks) == \A i, j \in DOMAIN ks : i < j => KeyLess(ks[i], ks[j])

\* C10: for the announcement list of one invocation the text output and the
\* JSON array hold the same events in the same order, and both are sorted by
\* host, then job id.
C10_TextAndJsonSortedAlike ==
    pc = "created" =>
        LET text == TextKeys(writeReport(kind, events))
            json == JsonKeys(jsonMarshal(kind, events))
        IN  /\ text = json
            /\ SortedKeys(text)
            /\ SortedKeys(json)

\* The names of the columns of a line, in order.
Columns(line) == [i \in DOMAIN line |-> line[i][1]]

\* C11: for any map M of valid job-state rows ReadJobState(WriteJobState(M)) = M
\* on all six fields, and every written line has its columns in the order id,
\* host, startedOnOrBefore, firstViolation, lastSeen, isReported.
C11_StateRoundTrip ==
    (call.fn = "WriteJobState" /\ ret.done) =>
        /\ ret.read.err = "nil"
        /\ ret.read.state = call.data
        /\ \A line \in ret.file.rows : Columns(line) = StateFields

\* C12: the state file is replaced by a temp file renamed over it, so at every
\* step of a write, a crash included, the destination holds the complete
\* previous content or the complete new content, never a part of it.
C12_DestinationNeverPartial ==
    [][\/ stateFile' = stateFile
       \/ pc = "writing" /\ stateFile' = WriteJobState(hogState)]_vars

\* C13: when writing the state file fails (creating the temp file, writing or
\* flushing a row, the rename), the invocation ends with an error and a
\* non-zero exit, and the previous state file is as it was.
C13_WriteFailureSurfaces ==
    [][(pc \in {"printed", "writing"} /\ pc' = "idle" /\ exit' # "crash"
            /\ failed' \in {"createTemp", "write", "rename"})
          => (exit' = "error" /\ stateFile' = prevFile)]_vars

\* A command line the verbs refuse.
BadArgs(a) == a.dataPath = "" \/ a.from = BadOption \/ a.to = BadOption

\* C14: an invocation that starts with no state file takes the empty state,
\* goes on without an error and its final write creates the file; a state
\* file that is there is never taken for the empty state: the invocation goes
\* on only with what the file holds.
C14_AbsentStateIsEmpty ==
    [][/\ (pc = "idle" /\ ~stateFile.present /\ ~BadArgs(args')) =>
            (pc' = "read" /\ hogState' = << >> /\ exit' = "none")
       /\ (pc = "idle" /\ pc' = "read" /\ stateFile.present) =>
            /\ ReadJobState(stateFile).err = "nil"
            /\ hogState' = ReadJobState(stateFile).state
       /\ (pc = "writing" /\ pc' = "idle" /\ exit' = "ok" /\ failed' = "none") =>
            stateFile'.present]_vars

\* C15: an invocation whose command line is refused (no data path, a --from or
\* --to that is no time) ends with an error and has no side effect: the state
\* file is as it was, nothing is announced, no file is written.
C15_ConfigErrorNoSideEffects ==
    [][(pc = "idle" /\ BadArgs(args')) =>
          /\ exit' = "error"
          /\ pc' = "idle"
          /\ stateFile' = stateFile
          /\ output' = NoOutput
          /\ tmpFile' = NoFile
          /\ hogState' = << >>]_vars

C15_Witness ==
    /\ exit = "error"
    /\ failed = "config"
    /\ args.to = BadOption
    /\ stateFile.present
    /\ ReadJobState(stateFile).err = "nil"
    /\ stateFile.rows # {}

\* The entries of the files of the window, in file-enumeration order.
RECURSIVE EntriesInWindow(_, _, _)
EntriesInWindow(files, day, to) ==
    IF Before(At(day, 0, 0), to) /\ day \in DOMAIN files
    THEN files[day] \o EntriesInWindow(files, day + 1, to)
    ELSE << >>

IsGood(e) == e.shape = "good"

\* The files without their malformed lines.
Cleaned(files) == [day \in DOMAIN files |-> SelectSeq(files[day], IsGood)]

\* C16: a line whose tag is not the kind's, or that lacks a required field or
\* has one that does not parse, contributes to no aggregated job and does not
\* end the reading of its file: the jobs are those of the same files without
\* the malformed lines, and every well-formed line of the window is folded.
C16_MalformedRowsDropped ==
    (call.fn = "readLogFiles" /\ ret.done) =>
        LET clean == readLogFiles(StoreOf(call.kind, Cleaned(call.files)),
                                  call.kind, call.from, call.to)
            seen == EntriesInWindow(call.files, 0, call.to)
        IN  /\ ret.jobs = clean
            /\ ret.jobsLogGo = clean
            /\ \A i \in DOMAIN seen :
                  IsGood(seen[i]) => seen[i].key \in DOMAIN ret.jobs

\* The rows of the window that survive, in file-enumeration order: the
\* well-formed lines of the files that encoding/csv reads to their end.
RECURSIVE Surviving(_, _, _)
Surviving(files, day, to) ==
    IF Before(At(day, 0, 0), to) /\ day \in DOMAIN files
    THEN (IF \E i \in DOMAIN files[day] : files[day][i].shape = "quote"
          THEN << >> ELSE SelectSeq(files[day], IsGood))
         \o Surviving(files, day + 1, to)
    ELSE << >>

\* The least and the greatest of the values f gives for the rows.
Least(rows, f(_)) == CHOOSE x \in { f(rows[i]) : i \in DOMAIN rows } :
                        \A i \in DOMAIN rows : x <= f(rows[i])
Greatest(rows, f(_)) == CHOOSE x \in { f(rows[i]) : i \in DOMAIN rows } :
                           \A i \in DOMAIN rows : x >= f(rows[i])

InputLines == SelectSeq(call.input, NonEmptyLine)

\* The line with its fields in the order o.
Permuted(line, o) == [i \in DOMAIN line |-> line[o[i]]]

\* The fields of the line that have the form name=value.
PairsOf(line) == { line[i] : i \in { j \in DOMAIN line : Len(line[j]) = 2 } }

DistinctNames(line) ==
    \A i, j \in DOMAIN line :
        (i # j /\ Len(line[i]) = 2 /\ Len(line[j]) = 2) => line[i][1] # line[j][1]

Succeeds(step, record) ==
    /\ step.tag \in DOMAIN record
    /\ LET text == record[step.tag] IN
       CASE step.get = "GetString" -> TRUE
         [] step.get = "GetJobMark" -> text.form \in {"uint", "jobmark"} /\ text.v < 2^UintBits
         [] step.get = "GetUint32" -> text.form = "uint" /\ text.v < 2^UintBits
         [] step.get = "GetFloat64" -> text.form \in {"uint", "float"}
         [] step.get = "GetBool" ->
              \/ text.form = "bool" /\ text.v \in TrueWords \cup FalseWords
              \/ text.form = "uint" /\ text.v \in {0, 1}
         [] step.get = "GetDateTime" -> text.form = "datetime"
         [] step.get = "GetRFC3339" -> text.form = "rfc3339"

\* The zero value of the type the accessor returns.
ZeroValue(step) ==
    CASE step.get = "GetString" -> ""
      [] step.get \in {"GetJobMark", "GetUint32", "GetFloat64"} -> 0
      [] step.get = "GetBool" -> FALSE
      [] step.get \in {"GetDateTime", "GetRFC3339"} -> ZeroTime

\* C19: an accessor clears the ok flag when its field is missing or does not
\* parse and returns the zero value then, and it never sets a false flag; so
\* after a chain the flag is true iff it was true before and every accessor
\* of the chain succeeded.
C19_AccessorsClearOkReturnZero ==
    (call.fn = "getters" /\ ret.done) =>
        /\ \A i \in DOMAIN call.chain :
              LET before == IF i = 1 THEN call.success ELSE ret.results[i - 1].success
                  step == call.chain[i]
              IN  /\ ret.results[i].success = (before /\ Succeeds(step, call.record))
                  /\ ~Succeeds(step, call.record) => ret.results[i].value = ZeroValue(step)
        /\ ret.results[Len(call.chain)].success =
              (call.success /\ \A i \in DOMAIN call.chain : Succeeds(call.chain[i], call.record))

\* The day an option names, counted from the day of the clock.
DayNamed(option, default, time) ==
    LET o == IF option = NoOption THEN default ELSE option
        today == time \div Day
    IN  CASE o.t = "date" -> o.n
          [] o.t = "d" -> today - o.n
          [] o.t = "w" -> today - 7 * o.n

\* C20: for an accepted --from/--to pair From is midnight of the --from day
\* (by default the day before today) and To is midnight of the day after the
\* --to day (by default today): the window [From, To) has the whole --to day
\* before its end, and holds it when the --from day is not after it.
C20_WindowHalfOpen ==
    (call.fn = "Parse" /\ ret.done) =>
        /\ ret.opts.err = BadArgs(call.args)
        /\ ~ret.opts.err =>
              LET fromDay == DayNamed(call.args.from, DaysAgo(1), call.clock)
                  toDay == DayNamed(call.args.to, DaysAgo(0), call.clock)
              IN  /\ ret.opts.From = At(fromDay, 0, 0)
                  /\ ret.opts.To = At(toDay + 1, 0, 0)
                  /\ \A t \in { At(toDay, 0, 0), At(toDay, 23, 59) } :
                        /\ Before(t, ret.opts.To)
                        /\ fromDay <= toDay => ~Before(t, ret.opts.From)

\* --from 3d --to 2d gives From = today - 3 days and To = today - 1 day.
C20_Witness ==
    /\ call.fn = "Parse"
    /\ ret.done
    /\ call.args = CommandLine("data", DaysAgo(3), DaysAgo(2))
    /\ call.clock = At(Today, 12, 0)
    /\ ~ret.opts.err
    /\ ret.opts.From = At(Today - 3, 0, 0)
    /\ ret.opts.To = At(Today - 1, 0, 0)

\* C21: EnumerateFiles returns the files of exactly the days D with
\* from <= D < to that have a directory, one day after the other in ascending
\* order; a day without a directory gives nothing and no error; the result is
\* empty when from >= to.
C21_EnumerateDaysAscending ==
    (call.fn = "EnumerateFiles" /\ ret.done) =>
        /\ { ret.files[i] : i \in DOMAIN ret.files } =
              { d \in DOMAIN call.store :
                  ~Before(At(d, 0, 0), call.from) /\ Before(At(d, 0, 0), call.to) }
        /\ \A i, j \in DOMAIN ret.files : i < j => ret.files[i] < ret.files[j]
        /\ ~Before(call.from, call.to) => ret.files = << >>

C21_Witness ==
    /\ call.fn = "EnumerateFiles"
    /\ ret.done
    /\ DOMAIN call.store = {0, 2, 3}
    /\ call.from = At(0, 0, 0)
    /\ call.to = At(3, 0, 0)
    /\ ret.files = << 0, 2 >>

\* The rows of the call that carry a host, by position, and their hosts.
WithHost == { i \in DOMAIN call.rows : call.rows[i].shape # "nohost" }
HostsSeen == { call.rows[i].host : i \in WithHost }

\* The rows are sorted by host: "" < "ml1" < "ml2".
HostRank(h) == CASE h = "" -> 0 [] h = "ml1" -> 1 [] h = "ml2" -> 2
SortedByHost ==
    \A i, j \in WithHost : i < j => HostRank(call.rows[i].host) <= HostRank(call.rows[j].host)

\* The positions of the rows of host h whose time and numbers parse and that
\* have a gpus field, in order.
RECURSIVE Ascending(_)
Ascending(S) ==
    IF S = {} THEN << >>
    ELSE LET least == CHOOSE x \in S : \A y \in S : x <= y
         IN  << least >> \o Ascending(S \ {least})

ParsedRowsOf(h) ==
    Ascending({ i \in WithHost : /\ call.rows[i].host = h
                                 /\ call.rows[i].shape = "good"
                                 /\ call.rows[i].gpus # "missing" })

\* The positions of the data of a bucket.
PositionsOf(hd) == [i \in DOMAIN hd.data |-> hd.data[i].datetime \div Hour]

\* C22: for output sorted by host parseOutput returns one bucket per distinct
\* host, in input order, and the bucket of a host holds the successfully
\* parsed rows of the host in their order.
C22_OneBucketPerHost ==
    (call.fn = "parseOutput" /\ ret.done /\ SortedByHost) =>
        /\ ret.err = "nil"
        /\ Len(ret.output) = Cardinality(HostsSeen)
        /\ { ret.output[b].hostname : b \in DOMAIN ret.output } = HostsSeen
        /\ \A b, c \in DOMAIN ret.output :
              b < c => HostRank(ret.output[b].hostname) < HostRank(ret.output[c].hostname)
        /\ \A b \in DOMAIN ret.output :
              PositionsOf(ret.output[b]) = ParsedRowsOf(ret.output[b].hostname)

\* The positions of the rows that parseOutput kept, over all buckets.
KeptRows ==
    UNION { { PositionsOf(ret.output[b])[i] : i \in DOMAIN ret.output[b].data } :
              b \in DOMAIN ret.output }

\* The gpus values that are the literal unknown, the literal none or a
\* comma-separated list of unsigned integers.
ValidGpus == {"unknown", "none", "list"}

\* C23: a row whose gpus value is not unknown, none or a comma-separated list
\* of unsigned integers is dropped by parseOutput: no bucket holds it.
C23_BadGpusDropsRow ==
    (call.fn = "parseOutput" /\ ret.done) =>
        \A i \in DOMAIN call.rows : call.rows[i].gpus \notin ValidGpus => i \notin KeptRows

\* C30: every bucket that parseOutput returns holds at least one datum, so
\* writePlots reads the first datum of every bucket without failing.
C30_BucketsNeverEmpty ==
    (call.fn = "parseOutput" /\ ret.done) =>
        /\ \A b \in DOMAIN ret.output : Len(ret.output[b].data) >= 1
        /\ ~ret.plots.panic

\* The positions of the rows of the call that have one of the listed columns.
RowsWithColumn ==
    { i \in DOMAIN call.data : \E c \in DOMAIN call.fields : call.fields[c] \in DOMAIN call.data[i] }

\* The listed columns that row i has, in the order of the column list.
ListedIn(i) == SelectSeq(call.fields, LAMBDA n : n \in DOMAIN call.data[i])

\* C24: WriteFreeCSV writes one line for each row that has a listed column, in
\* input order; the line has the listed columns present in the row, and only
\* those, in the order of the column list, each with the row's value.
C24_ListedColumnsInListOrder ==
    (call.fn = "WriteFreeCSV" /\ ret.done) =>
        LET kept == Ascending(RowsWithColumn)
        IN  /\ Len(ret.lines) = Len(kept)
            /\ \A l \in DOMAIN ret.lines :
                  LET names == ListedIn(kept[l])
                  IN  /\ Len(ret.lines[l]) = Len(names)
                      /\ \A c \in DOMAIN names :
                            ret.lines[l][c] = << names[c], call.data[kept[l]][names[c]] >>

\* A row without a listed column is skipped and the next row's columns b and
\* a are written in the order of the list << "b", "a" >>, without its c.
C24_Witness ==
    /\ call.fn = "WriteFreeCSV"
    /\ ret.done
    /\ call.fields = << "b", "a" >>
    /\ Len(call.data) = 2
    /\ DOMAIN call.data[1] = {"c"}
    /\ DOMAIN call.data[2] = {"a", "b", "c"}
    /\ ret.lines = << << << "b", Text("b") >>, << "a", Text("a") >> >> >>

\* The state this invocation read from the state file.
StateRead == ReadJobStateOrEmpty(stateFile).state

Removed == DOMAIN prePurge \ DOMAIN hogState

\* C26: the purge pass removes a row only if its key is not among the
\* aggregated jobs of this invocation and its lastSeen is more than two days
\* before the end of the window.
C26_PurgeSparesCurrentJobs ==
    pc = "purged" =>
        \A k \in Removed :
            /\ k \notin DOMAIN logs
            /\ Before(prePurge[k].LastSeen, AddDate(opts.To, 0 - 2))

\* The keys of the paragraphs printed by this invocation.
Printed == { TextKeys(output.items)[i] : i \in DOMAIN output.items }

\* C27: the state is saved before the report is printed: whenever the report
\* of an invocation has been printed, every key in it has a row with
\* isReported = true in the state file.
C27_SavedBeforeAnnounced ==
    output.format = "text" =>
        \A k \in Printed :
            k \in FileKeys(stateFile) /\ FileRow(stateFile, k).IsReported

\* The unreported rows of the call whose key is not among the aggregated jobs.
Absent == Unreported(call.state) \ DOMAIN call.jobs

C29_UnreportedAreInserted ==
    /\ pc = "purged" =>
          /\ Unreported(hogState) = Inserted
          /\ Unreported(hogState) \subseteq DOMAIN logs
          /\ Cardinality(Unreported(hogState)) = candidates
    /\ pc = "created" =>
          /\ Len(events) = candidates
          /\ EventKeys(events) = Inserted

\* An invocation that read a state written by an earlier one made events for
\* the two keys it inserted.
C29_Witness ==
    /\ pc = "created"
    /\ FileKeys(stateFile) # {}
    /\ candidates = 2
    /\ Len(events) = 2

====
